---- MODULE Spec2Model ----
(***************************************************************************)
(* The HyperToken Python bridge: HyperTokenClient (client.py), the turn-   *)
(* sequenced adapter HyperTokenAECEnv and the parallel emulation           *)
(* HyperTokenParallelEnv (env.py), driven against an environment server.   *)
(*                                                                         *)
(* Every method is one action.  A method is computed as the set of         *)
(* machines it can end in: a machine is the program state (the client's    *)
(* socket handle, the adapter's fields), the server and the socket's       *)
(* inbound queue, together with the exchanges of the call, the exception   *)
(* it raised and the value it returned.  The server and the network        *)
(* choose among their possible answers at every round trip.                *)
(***************************************************************************)
EXTENDS Integers, Sequences, FiniteSets, TLC

VARIABLES
    obj,                 \* what the program constructed: a bare client or an adapter
    ws,                  \* HyperTokenClient.ws
    connected,           \* HyperTokenAECEnv._connected
    possible_agents,     \* HyperTokenAECEnv._possible_agents
    observation_spaces,  \* HyperTokenAECEnv._observation_spaces
    action_spaces,       \* HyperTokenAECEnv._action_spaces
    render_mode,         \* HyperTokenAECEnv.render_mode
    srv,                 \* the environment server behind the socket
    inbox,               \* replies the socket holds that no recv has consumed yet
    late,                \* whether a reply that missed its recv is delivered late
    policies,            \* the removal policies a server may run
    versions,            \* the protocol versions a server may speak
    iter,                \* the generator the last agent_iter call returned
    loop,                \* run_episode's position in its episode loop
    threads,             \* the threads that share the client, each inside _send
    call                 \* the last method call: its arguments, exchanges and outcome

vars == <<obj, ws, connected, possible_agents, observation_spaces, action_spaces,
          render_mode, srv, inbox, late, policies, versions, iter, loop, threads, call>>

----------------------------------------------------------------------------
(* Bounds of the model.                                                    *)

\* Replies that may be left unconsumed on one socket by receive timeouts.
MaxLate == 1

\* The largest max_iter a caller passes to agent_iter; the count of a
\* generator is kept exactly up to it.
MaxIter == 2

\* The threads that may share one client.
ThreadIds == {1, 2}

\* The agent lists a server may announce, the actions and seeds callers pass.
ServerAgentLists == {<<"a", "b">>, <<"c">>}
Actions == {0, 1}
Seeds == {0}
ErrorStrings == {"invalid action"}

\* Python's None for an optional argument; Some(v) is a present value.
None == <<>>
Some(v) == <<v>>

Range(s) == {s[i] : i \in 1..Len(s)}

\* A Python dict: a function on its key set.  {} is the function on no key.
EmptyDict == [k \in {} |-> 0]
DictSet(d, k, v) == [x \in (DOMAIN d) \cup {k} |-> IF x = k THEN v ELSE d[x]]
Get(d, k, default) == IF k \in DOMAIN d THEN d[k] ELSE default

----------------------------------------------------------------------------
(* Exceptions.                                                             *)

NoExc == [kind |-> "none", msg |-> <<>>]
\* client.py:85
NotConnectedExc == [kind |-> "RuntimeError", msg |-> <<"Not connected. Call connect() first.">>]
\* client.py:91, f"Server error: {response['error']}"
ServerErrorExc(e) == [kind |-> "RuntimeError", msg |-> <<"Server error: ", e>>]
\* raised by the websocket library: create_connection, send, recv
WebSocketExc(what) == [kind |-> "WebSocketException", msg |-> <<what>>]
\* response["field"] on a reply without that field; dict[agent] on a missing key
KeyErrorExc(k) == [kind |-> "KeyError", msg |-> <<k>>]
\* spaces.py:93
ValueErrorExc == [kind |-> "ValueError", msg |-> <<"Unknown space format">>]
\* next() on a generator that has returned
StopIteration == [kind |-> "StopIteration", msg |-> <<>>]

----------------------------------------------------------------------------
(* The server: possible agents, the active agents in the order `agents`    *)
(* lists them, the agent whose turn it is ("" when there is none), the     *)
(* active agents that are finished (terminated) and await their removal,   *)
(* whether its per-agent maps are keyed by the possible or by the active   *)
(* agents, whether a finished agent leaves the active set at once or only  *)
(* when the server receives that agent's step, and the protocol version it *)
(* speaks: a server of another version may answer with a reply that lacks  *)
(* the fields this client expects.                                         *)

KeyConventions == {"possible", "active"}
RemovalPolicies == {"at_once", "on_step"}
Versions == {"current", "other"}

ServerStart(list, keys, removal, version) ==
    [possible |-> list, agents |-> <<>>, sel |-> "", done |-> {},
     keys |-> keys, removal |-> removal, version |-> version]

\* The mask field of a reply to action_mask: null, or a vector with one
\* entry per action, or with none.
MaskValues == {None, Some(<<>>), Some(<<FALSE, FALSE>>), Some(<<TRUE, FALSE>>)}

StatusKeys(s) == IF s.keys = "possible" THEN Range(s.possible) ELSE Range(s.agents)

Remove(s, x) == SelectSeq(s, LAMBDA y : y # x)

AgentMap(keys, v) == [k \in keys |-> v]

\* The space descriptors of an agent: a bounded vector to observe, a
\* discrete choice to act.
ObsSpaceDef(agent) == [shape |-> <<2>>]
ActSpaceDef(agent) == [n |-> 2]

Ack == [ok |-> TRUE]

\* The turn passes to any agent still active.
NextTurns(rest) == IF rest = <<>> THEN {""} ELSE Range(rest)

\* A step the server accepts.  Removing at once: the selected agent may
\* finish and leave the active set.  Removing on step: the step of a finished
\* agent removes it; the step of any other agent may finish any of the
\* active agents, which stay in the active set.
ServerStepOk(s) ==
    IF s.removal = "at_once"
    THEN UNION { { [s EXCEPT !.agents = rest, !.sel = nxt] : nxt \in NextTurns(rest) } :
                 rest \in {s.agents, Remove(s.agents, s.sel)} }
    ELSE IF s.sel \in s.done
    THEN LET rest == Remove(s.agents, s.sel)
         IN  { [s EXCEPT !.agents = rest, !.done = @ \ {s.sel}, !.sel = nxt] :
                 nxt \in NextTurns(rest) }
    ELSE UNION { { [s EXCEPT !.done = @ \cup D, !.sel = nxt] : nxt \in NextTurns(s.agents) } :
                 D \in SUBSET (Range(s.agents) \ s.done) }

\* The server's answers to one command: pairs of its next state and reply.
ServerAccepts(s, c) ==
    CASE c.cmd = "reset" ->
           { [srv |-> [s EXCEPT !.agents = s.possible, !.sel = first, !.done = {}],
              reply |-> Ack] : first \in Range(s.possible) }
      [] c.cmd = "step" ->
           IF s.sel = "" THEN {}
           ELSE { [srv |-> t, reply |-> Ack] : t \in ServerStepOk(s) }
      [] c.cmd = "agents" -> { [srv |-> s, reply |-> [agents |-> s.agents]] }
      [] c.cmd = "possible_agents" ->
           { [srv |-> s, reply |-> [possible_agents |-> s.possible]] }
      [] c.cmd = "agent_selection" -> { [srv |-> s, reply |-> [agent |-> s.sel]] }
      [] c.cmd = "observe" ->
           IF c.agent \in Range(s.possible)
           THEN { [srv |-> s, reply |-> [observation |-> <<c.agent>>]] }
           ELSE {}
      [] c.cmd = "observation_space" ->
           IF c.agent \in Range(s.possible)
           THEN { [srv |-> s, reply |-> [space |-> ObsSpaceDef(c.agent)]] }
           ELSE {}
      [] c.cmd = "action_space" ->
           IF c.agent \in Range(s.possible)
           THEN { [srv |-> s, reply |-> [space |-> ActSpaceDef(c.agent)]] }
           ELSE {}
      [] c.cmd = "action_mask" ->
           IF c.agent \in Range(s.possible)
           THEN { [srv |-> s, reply |-> Ack] } \cup
                { [srv |-> s, reply |-> [mask |-> mask]] : mask \in MaskValues }
           ELSE {}
      [] c.cmd = "last" ->
           { [srv |-> s, reply |-> [reward |-> 0, terminated |-> (s.sel \in s.done),
                                    truncated |-> FALSE, info |-> EmptyDict]] }
      [] c.cmd = "rewards" ->
           { [srv |-> s, reply |-> [rewards |-> AgentMap(StatusKeys(s), 0)]] }
      [] c.cmd = "terminations" ->
           { [srv |-> s, reply |->
                [terminations |->
                   [k \in StatusKeys(s) |-> k \notin Range(s.agents) \/ k \in s.done]]] }
      [] c.cmd = "truncations" ->
           { [srv |-> s, reply |-> [truncations |-> AgentMap(StatusKeys(s), FALSE)]] }
      [] c.cmd = "infos" ->
           { [srv |-> s, reply |-> [infos |-> AgentMap(StatusKeys(s), EmptyDict)]] }
      [] OTHER -> { [srv |-> s, reply |-> Ack] }

\* Any command may instead be rejected: an error reply, the state untouched.
ServerRejects(s, c) ==
    { [srv |-> s, reply |-> [error |-> e]] : e \in ErrorStrings }

\* A server of another version handles the command and answers with a
\* bare acknowledgement.
ServerMalformed(s, c) ==
    IF s.version = "other"
    THEN { [srv |-> h.srv, reply |-> Ack] : h \in ServerAccepts(s, c) }
    ELSE {}

ServerHandle(s, c) ==
    ServerAccepts(s, c) \cup ServerRejects(s, c) \cup ServerMalformed(s, c)

\* No server is reachable through a client that holds no socket.
NoServer == ServerStart(<<>>, "possible", "at_once", "current")

----------------------------------------------------------------------------
(* A machine: the program state, the server and the socket's queue, with   *)
(* the exchanges (trace), the connections opened, the sockets that are     *)
(* open (live) and the most that were open at once (peak) since the call   *)
(* started, the exception raised                                           *)
(* and the value returned by the call in progress.                         *)

Machine == [ws |-> ws, connected |-> connected, possible_agents |-> possible_agents,
            observation_spaces |-> observation_spaces, action_spaces |-> action_spaces,
            srv |-> srv, inbox |-> inbox,
            trace |-> <<>>, opened |-> 0, exc |-> NoExc, ret |-> None,
            live |-> IF ws # "None" THEN 1 ELSE 0,
            peak |-> IF ws # "None" THEN 1 ELSE 0]

Running(m) == m.exc.kind = "none"
Raise(m, e) == [m EXCEPT !.exc = e, !.ret = None]
Return(m, v) == [m EXCEPT !.ret = v]

\* Sequencing: F runs on the machines that did not raise.
Then(M, F(_)) == UNION { IF Running(m) THEN F(m) ELSE {m} : m \in M }

\* A reply that never arrived within the call.
NoReply == [lost |-> TRUE]

\* One exchange of a call, as the trace keeps it: the command transmitted,
\* the message recv returned for it, the server's own answer to the command,
\* the agent that was selected when the server handled it, and the number of
\* undelivered replies that were ahead of the answer in the socket's queue.
Exchange(m, cmd, answer, reply) ==
    [cmd |-> cmd, reply |-> reply, answer |-> answer, by |-> m.srv.sel,
     ahead |-> Len(m.inbox)]

----------------------------------------------------------------------------
(* HyperTokenClient (client.py).                                           *)

\* client.py:62-69
disconnect(m) ==
    IF m.ws # "None"
    THEN [m EXCEPT !.ws = "None", !.inbox = <<>>, !.srv = NoServer, !.live = @ - 1]
    ELSE m

\* connect opening the new socket without closing the one it holds.
client_connect_overwriting(m) ==
    { Raise(m, WebSocketExc("create_connection")) } \cup
    { [m EXCEPT !.ws = "sock", !.srv = ServerStart(list, keys, removal, version),
                !.inbox = <<>>, !.opened = @ + 1, !.live = @ + 1,
                !.peak = IF m.live + 1 > @ THEN m.live + 1 ELSE @] :
        list \in ServerAgentLists, keys \in KeyConventions,
        removal \in policies, version \in versions }

\* client.py:52-60.  create_connection raises when the server is unreachable.
client_connect(m) ==
    LET m1 == IF m.ws # "None" THEN disconnect(m) ELSE m
    IN  { Raise(m1, WebSocketExc("create_connection")) } \cup
        { [m1 EXCEPT !.ws = "sock", !.srv = ServerStart(list, keys, removal, version),
                     !.inbox = <<>>, !.opened = @ + 1, !.live = @ + 1,
                     !.peak = IF m1.live + 1 > @ THEN m1.live + 1 ELSE @] :
            list \in ServerAgentLists, keys \in KeyConventions,
            removal \in policies, version \in versions }

\* _send with the not-connected test of client.py:84-85 left out: the send
\* is attempted on the absent socket.
_send_unguarded(m, cmd) ==
    IF m.ws = "None"
    THEN { Raise(m, [kind |-> "AttributeError", msg |-> <<"send">>]) }
    ELSE
      { Raise(m, WebSocketExc("send")) } \cup
      UNION {
        LET lost == [m EXCEPT !.srv = h.srv,
                       !.trace = Append(@, Exchange(m, cmd, h.reply, NoReply))]
            got  == [m EXCEPT !.srv = h.srv,
                       !.trace = Append(@, Exchange(m, cmd, h.reply, h.reply))]
        IN  { Raise(lost, WebSocketExc("recv")),
              IF "error" \in DOMAIN h.reply
              THEN Raise(got, ServerErrorExc(h.reply.error))
              ELSE Return(got, h.reply) }
        : h \in ServerHandle(m.srv, cmd) }

\* _send with the error test of client.py:90-91 left out: an error reply is
\* returned to the caller like any other.
_send_error_as_data(m, cmd) ==
    IF m.ws = "None" THEN { Raise(m, NotConnectedExc) }
    ELSE
      { Raise(m, WebSocketExc("send")) } \cup
      UNION {
        LET lost == [m EXCEPT !.srv = h.srv,
                       !.trace = Append(@, Exchange(m, cmd, h.reply, NoReply))]
            got  == [m EXCEPT !.srv = h.srv,
                       !.trace = Append(@, Exchange(m, cmd, h.reply, h.reply))]
        IN  { Raise(lost, WebSocketExc("recv")), Return(got, h.reply) }
        : h \in ServerHandle(m.srv, cmd) }

\* client.py:71-93.  ws.send may raise before anything is transmitted; once
\* the command is transmitted the server handles it and its reply joins the
\* socket's queue; ws.recv returns the oldest queued message, or raises: the
\* reply is then lost with the connection or, on a timeout, stays queued.
_send(m, cmd) ==
    IF m.ws = "None" THEN { Raise(m, NotConnectedExc) }
    ELSE
      { Raise(m, WebSocketExc("send")) } \cup
      UNION {
        LET q  == Append(m.inbox, h.reply)
            timedOut ==
              [m EXCEPT !.srv = h.srv, !.inbox = q,
                        !.trace = Append(@, Exchange(m, cmd, h.reply, NoReply))]
            response == Head(q)
            got ==
              [m EXCEPT !.srv = h.srv, !.inbox = Tail(q),
                        !.trace = Append(@, Exchange(m, cmd, h.reply, response))]
            lost == [timedOut EXCEPT !.inbox = m.inbox]
        IN  (IF ~late THEN { Raise(lost, WebSocketExc("recv")) }
             ELSE IF Len(q) <= MaxLate THEN { Raise(timedOut, WebSocketExc("recv")) }
             ELSE {})
            \cup
            { IF "error" \in DOMAIN response
              THEN Raise(got, ServerErrorExc(response.error))
              ELSE Return(got, response) }
        : h \in ServerHandle(m.srv, cmd) }

\* response["field"]
Field(m, f) ==
    IF f \in DOMAIN m.ret THEN Return(m, m.ret[f]) ELSE Raise(m, KeyErrorExc(f))

SendField(m, cmd, f) == Then(_send(m, cmd), LAMBDA r : { Field(r, f) })
SendNone(m, cmd) == Then(_send(m, cmd), LAMBDA r : { Return(r, None) })

\* reset testing the seed for truth instead of for None: seed 0 is dropped.
client_reset_truthy(m, seed) ==
    SendNone(m, IF seed # None /\ seed[1] # 0 THEN [cmd |-> "reset", seed |-> seed[1]]
                ELSE [cmd |-> "reset"])

\* client.py:99-109
client_reset(m, seed) ==
    SendNone(m, IF seed # None THEN [cmd |-> "reset", seed |-> seed[1]]
                ELSE [cmd |-> "reset"])
\* client.py:111-118
client_step(m, action) == SendNone(m, [cmd |-> "step", action |-> action])
\* client.py:120-131
client_observe(m, agent) ==
    SendField(m, [cmd |-> "observe", agent |-> agent], "observation")
\* client.py:133-140
client_last(m) == _send(m, [cmd |-> "last"])
\* agents with a retry: after an error reply the query is sent once more.
client_agents_retrying(m) ==
    UNION { IF r.exc.kind = "RuntimeError" /\ r.trace # m.trace
            THEN SendField([r EXCEPT !.exc = NoExc], [cmd |-> "agents"], "agents")
            ELSE IF Running(r) THEN { Field(r, "agents") } ELSE { r }
          : r \in _send(m, [cmd |-> "agents"]) }
\* client.py:142-149
client_agents(m) == SendField(m, [cmd |-> "agents"], "agents")
\* client.py:151-158
client_possible_agents(m) == SendField(m, [cmd |-> "possible_agents"], "possible_agents")
\* client.py:160-167
client_agent_selection(m) == SendField(m, [cmd |-> "agent_selection"], "agent")
\* client.py:169-179
client_observation_space(m, agent) ==
    SendField(m, [cmd |-> "observation_space", agent |-> agent], "space")
\* client.py:181-191
client_action_space(m, agent) ==
    SendField(m, [cmd |-> "action_space", agent |-> agent], "space")
\* client.py:193-227
client_rewards(m) == SendField(m, [cmd |-> "rewards"], "rewards")
client_terminations(m) == SendField(m, [cmd |-> "terminations"], "terminations")
client_truncations(m) == SendField(m, [cmd |-> "truncations"], "truncations")
client_infos(m) == SendField(m, [cmd |-> "infos"], "infos")
\* `if mask`: None and the empty list are false.
Truthy(mask) == mask # None /\ mask[1] # <<>>

\* client.py:229-241.  A mask is None (null) or Some(vector).
client_action_mask(m, agent) ==
    Then(_send(m, [cmd |-> "action_mask", agent |-> agent]), LAMBDA r :
      LET mask == Get(r.ret, "mask", None)
      IN  { Return(r, IF Truthy(mask) THEN mask ELSE None) })
\* client.py:243-245
client_render(m) == SendNone(m, [cmd |-> "render"])

\* close without the try/except of client.py:249-252: what the close command
\* raises reaches the caller, and disconnect is not run.
client_close_propagating(m) ==
    Then(_send(m, [cmd |-> "close"]), LAMBDA r : { disconnect(Return(r, None)) })

\* client.py:247-253: whatever the close command raises is swallowed.
client_close(m) ==
    { disconnect([r EXCEPT !.exc = NoExc, !.ret = None]) :
        r \in _send(m, [cmd |-> "close"]) }

----------------------------------------------------------------------------
(* Space conversion (spaces.py).                                           *)

NegInf == [inf |-> "-"]
PosInf == [inf |-> "+"]

RECURSIVE Prod(_)
Prod(shape) == IF shape = <<>> THEN 1 ELSE Head(shape) * Prod(Tail(shape))

Repeat(v, n) == [i \in 1..n |-> v]

\* np.float32 of an integer: a float32 holds 24 significant bits, so an
\* integer of more bits is rounded to the nearest multiple of the power of
\* two that leaves 24, ties to the even multiple.
RECURSIVE Ulp(_, _)
Ulp(a, p) == IF a < p * 2^24 THEN p ELSE Ulp(a, 2 * p)

RoundEven(a, u) ==
    LET q == a \div u
        r == a % u
    IN  IF 2 * r < u THEN q * u
        ELSE IF 2 * r > u THEN (q + 1) * u
        ELSE IF q % 2 = 0 THEN q * u ELSE (q + 1) * u

F32(x) == IF x < 0 THEN 0 - RoundEven(0 - x, Ulp(0 - x, 1)) ELSE RoundEven(x, Ulp(x, 1))

\* np.array(bounds, dtype=np.float32) of the numbers a descriptor carries.
F32Array(bounds) == [i \in 1..Len(bounds) |-> F32(bounds[i])]

\* spaces.py:42-93.  The result is the space, or the ValueError raised.
convert_space(space_def) ==
    IF "n" \in DOMAIN space_def
    THEN [ok |-> TRUE, space |-> [type |-> "Discrete", n |-> space_def.n]]
    ELSE IF "shape" \in DOMAIN space_def
    THEN LET shape == space_def.shape
             size  == IF shape # <<>> THEN Prod(shape) ELSE 1
             low   == IF "low" \in DOMAIN space_def THEN F32Array(space_def.low)
                      ELSE Repeat(NegInf, size)
             high  == IF "high" \in DOMAIN space_def THEN F32Array(space_def.high)
                      ELSE Repeat(PosInf, size)
         IN  IF Len(low) = Prod(shape) /\ Len(high) = Prod(shape)
             THEN [ok |-> TRUE,
                   space |-> [type |-> "Box", shape |-> shape, low |-> low, high |-> high]]
             ELSE [ok |-> FALSE, exc |-> ValueErrorExc]
    ELSE [ok |-> FALSE, exc |-> ValueErrorExc]

\* spaces.py:96-124.  The result is the descriptor, or the ValueError raised.
space_to_dict(space) ==
    IF space.type = "Discrete"
    THEN [ok |-> TRUE, dict |-> [n |-> space.n]]
    ELSE IF space.type = "Box"
    THEN [ok |-> TRUE,
          dict |-> [shape |-> space.shape, low |-> space.low, high |-> space.high]]
    ELSE [ok |-> FALSE, exc |-> [kind |-> "ValueError", msg |-> <<"Unknown space type">>]]

\* The descriptors a server sends: a discrete space {n}; a bounded vector
\* {shape}, with or without low and high, low never above high.  The numbers
\* include one that needs 25 significant bits.
SpaceNumbers == {-1, 0, 1, 16777217}
SpaceShapes == {<<>>, <<1>>, <<2>>}
BoundsOf(shape) == [1..Prod(shape) -> SpaceNumbers]
DiscreteDefs == { [n |-> k] : k \in 1..3 }
BoxDefs ==
    UNION { { [shape |-> sh] }
            \cup { [shape |-> sh, low |-> lo] : lo \in BoundsOf(sh) }
            \cup { [shape |-> sh, high |-> hi] : hi \in BoundsOf(sh) }
            \cup { [shape |-> sh, low |-> lo, high |-> hi] :
                     <<lo, hi>> \in { b \in BoundsOf(sh) \X BoundsOf(sh) :
                                        \A i \in 1..Prod(sh) : b[1][i] <= b[2][i] } }
          : sh \in SpaceShapes }
ServerSpaceDefs == DiscreteDefs \cup BoxDefs
\* Descriptors of no known form, whose bounds do not fill the shape, or
\* carrying both forms.
OtherSpaceDefs == { [type |-> "unknown"], [shape |-> <<2>>, low |-> <<0>>, high |-> <<1>>],
                    [n |-> 2, shape |-> <<2>>] }

----------------------------------------------------------------------------
(* HyperTokenAECEnv (env.py).                                              *)

\* env.py:304-306
aec_render(m) == client_render(m)

\* env.py:95-99: one observation_space and one action_space request per
\* agent, the two conversions and the two cache writes, in that order.
RECURSIVE CacheSpaces(_, _)
CacheSpaces(m, list) ==
    IF list = <<>> THEN { Return(m, None) }
    ELSE
      LET agent == Head(list) IN
      Then(client_observation_space(m, agent), LAMBDA mo :
        Then(client_action_space(mo, agent), LAMBDA ma :
          LET obs == convert_space(mo.ret)
              act == convert_space(ma.ret)
          IN  IF ~obs.ok THEN { Raise(ma, obs.exc) }
              ELSE
                LET m1 == [ma EXCEPT !.observation_spaces = DictSet(@, agent, obs.space)]
                IN  IF ~act.ok THEN { Raise(m1, act.exc) }
                    ELSE CacheSpaces(
                           [m1 EXCEPT !.action_spaces = DictSet(@, agent, act.space)],
                           Tail(list))))

\* env.py:83-99
_connect_and_init(m) ==
    IF m.connected THEN { Return(m, None) }
    ELSE
      Then(client_connect(m), LAMBDA mc :
        Then(client_possible_agents([mc EXCEPT !.connected = TRUE]), LAMBDA mp :
          CacheSpaces([mp EXCEPT !.possible_agents = mp.ret], mp.ret)))

\* env.py:105-108
aec_possible_agents(m) == { Return(m, m.possible_agents) }

\* agents served from the adapter's cached list.
aec_agents_cached(m) == { Return(m, m.possible_agents) }

\* env.py:110-115
aec_agents(m) ==
    IF ~m.connected THEN { Return(m, <<>>) } ELSE client_agents(m)

\* env.py:122-127
aec_agent_selection(m) ==
    IF ~m.connected THEN { Return(m, "") } ELSE client_agent_selection(m)

\* env.py:178-179, 194-195
RenderIfHuman(M) ==
    IF render_mode = "human" THEN Then(M, LAMBDA r : aec_render(r)) ELSE M

\* reset fetching the agent list and the spaces again on a connected adapter.
aec_reset_refetching(m, seed) ==
    LET M0 == IF ~m.connected THEN _connect_and_init(m)
              ELSE Then(client_possible_agents(m), LAMBDA mp :
                     CacheSpaces([mp EXCEPT !.possible_agents = mp.ret], mp.ret))
    IN  RenderIfHuman(Then(M0, LAMBDA r : client_reset(r, seed)))

\* env.py:161-179
aec_reset(m, seed) ==
    LET M0 == IF ~m.connected THEN _connect_and_init(m) ELSE { m }
    IN  RenderIfHuman(Then(M0, LAMBDA r : client_reset(r, seed)))

\* step validating on the client: it asks for the selected agent's status
\* and refuses an action for a finished agent without sending it.
aec_step_validating(m, action) ==
    RenderIfHuman(
      IF action # None
      THEN Then(client_last(m), LAMBDA ml :
             IF Get(ml.ret, "terminated", FALSE) \/ Get(ml.ret, "truncated", FALSE)
             THEN { Raise(ml, [kind |-> "ValueError", msg |-> <<"agent is finished">>]) }
             ELSE client_step(ml, action[1]))
      ELSE { Return(m, None) })

\* step forwarding a null action to the server as a step command.
aec_step_forwarding_none(m, action) ==
    RenderIfHuman(client_step(m, IF action # None THEN action[1] ELSE None))

\* env.py:181-195.  action is None or Some(n); int(n) of an integer is n.
aec_step(m, action) ==
    RenderIfHuman(IF action # None THEN client_step(m, action[1])
                  ELSE { Return(m, None) })

\* env.py:197-207
aec_observe(m, agent) == client_observe(m, agent)

\* last pairing the result with the observation of the first listed agent
\* instead of the selected one.
aec_last_observing_first(m, observe) ==
    Then(client_last(m), LAMBDA ml :
      LET result == ml.ret
          agent  == IF ml.possible_agents # <<>> THEN Head(ml.possible_agents) ELSE ""
      IN
      Then(IF observe THEN aec_observe(ml, agent) ELSE { Return(ml, None) },
           LAMBDA mo :
             { Return(mo, [obs |-> mo.ret,
                           reward |-> Get(result, "reward", 0),
                           terminated |-> Get(result, "terminated", FALSE),
                           truncated |-> Get(result, "truncated", FALSE),
                           info |-> Get(result, "info", EmptyDict)]) }))

\* env.py:209-233
aec_last(m, observe) ==
    Then(client_last(m), LAMBDA ml :
      LET result == ml.ret IN
      Then(aec_agent_selection(ml), LAMBDA ms :
        Then(IF observe THEN aec_observe(ms, ms.ret) ELSE { Return(ms, None) },
             LAMBDA mo :
               { Return(mo, [obs |-> mo.ret,
                             reward |-> Get(result, "reward", 0),
                             terminated |-> Get(result, "terminated", FALSE),
                             truncated |-> Get(result, "truncated", FALSE),
                             info |-> Get(result, "info", EmptyDict)]) })))

\* env.py:255-266
aec_action_mask(m, agent) == client_action_mask(m, agent)

\* A generator of agent_iter: not yet started ("created"), suspended at its
\* yield, or returned ("stopped"); its count and max_iter (None is the
\* default 2**63, which no count of a run reaches: counts above MaxIter are
\* kept as MaxIter); the agent it yielded last; and the number of
\* generators that were started, by their first next(), since the last
\* reset (2 stands for more).
NoIter == [state |-> "none", count |-> 0, max_iter |-> None, prev |-> None, begun |-> 0]

Min(a, b) == IF a < b THEN a ELSE b

\* count < max_iter
BelowMax(count, max_iter) == max_iter = None \/ count < max_iter[1]

\* env.py:294
NewIter(it, max_iter) ==
    [state |-> "created", count |-> 0, max_iter |-> max_iter, prev |-> None,
     begun |-> it.begun]

\* The count when the generator is resumed: env.py:294 on the first next(),
\* env.py:298 after a yield.
ResumedCount(it) == IF it.state = "created" THEN 0 ELSE Min(it.count + 1, MaxIter)

\* The generator testing count <= max_iter: one yield more than max_iter.
agent_iter_next_inclusive(m, it) ==
    IF it.state = "stopped" THEN { Raise(m, StopIteration) }
    ELSE
      Then(aec_agents(m), LAMBDA ma :
        IF ma.ret # <<>> /\ (it.max_iter = None \/ ResumedCount(it) <= it.max_iter[1])
        THEN aec_agent_selection(ma)
        ELSE { Raise(ma, StopIteration) })

\* env.py:295-297: next() on the generator runs it to its next yield, which
\* returns the selected agent, or to its end, which raises StopIteration.
agent_iter_next(m, it) ==
    IF it.state = "stopped" THEN { Raise(m, StopIteration) }
    ELSE
      Then(aec_agents(m), LAMBDA ma :
        IF ma.ret # <<>> /\ BelowMax(ResumedCount(it), it.max_iter)
        THEN aec_agent_selection(ma)
        ELSE { Raise(ma, StopIteration) })

\* The generators started once this one is resumed.
BegunNow(it) == IF it.state = "created" THEN Min(it.begun + 1, 2) ELSE it.begun

\* The generator after next() ended in machine r.
IterAfterNext(it, r) ==
    IF Running(r)
    THEN [it EXCEPT !.state = "suspended", !.count = ResumedCount(it),
                    !.prev = Some(r.ret), !.begun = BegunNow(it)]
    ELSE [it EXCEPT !.state = "stopped", !.count = ResumedCount(it),
                    !.begun = BegunNow(it)]

\* env.py:239-253
aec_rewards(m) == client_rewards(m)
aec_terminations(m) == client_terminations(m)
aec_truncations(m) == client_truncations(m)
aec_infos(m) == client_infos(m)

\* env.py:308-312
aec_close(m) ==
    IF m.connected
    THEN Then(client_close(m), LAMBDA r : { [r EXCEPT !.connected = FALSE] })
    ELSE { Return(m, None) }

\* env.py:318-322
aec_enter(m) ==
    IF ~m.connected THEN _connect_and_init(m) ELSE { Return(m, None) }

----------------------------------------------------------------------------
(* HyperTokenParallelEnv (env.py).                                         *)

\* The loop without the turn test of env.py:461: every listed agent's action
\* is stepped when its iteration comes, whoever is selected.
RECURSIVE StepLoopAnyTurn(_, _, _)
StepLoopAnyTurn(m, list, actions) ==
    IF list = <<>> THEN { m }
    ELSE
      LET agent == Head(list) IN
      IF agent \in DOMAIN actions
      THEN Then(aec_agent_selection(m), LAMBDA ms :
             Then(aec_step(ms, actions[agent]),
                  LAMBDA mt : StepLoopAnyTurn(mt, Tail(list), actions)))
      ELSE StepLoopAnyTurn(m, Tail(list), actions)

\* The loop going through the listed agents for a second round.
RECURSIVE StepRounds(_, _, _)
StepRounds(m, list, actions) ==
    IF list = <<>> THEN { m }
    ELSE
      LET agent == Head(list) IN
      IF agent \in DOMAIN actions
      THEN Then(aec_agent_selection(m), LAMBDA ms :
             IF ms.ret = agent
             THEN Then(aec_step(ms, actions[agent]),
                       LAMBDA mt : StepRounds(mt, Tail(list), actions))
             ELSE StepRounds(ms, Tail(list), actions))
      ELSE StepRounds(m, Tail(list), actions)

StepLoopTwoRounds(m, list, actions) == StepRounds(m, list \o list, actions)

\* The loop stepping an agent that has no entry in the map with action 0.
RECURSIVE StepLoopDefaulting(_, _, _)
StepLoopDefaulting(m, list, actions) ==
    IF list = <<>> THEN { m }
    ELSE
      LET agent == Head(list) IN
      Then(aec_agent_selection(m), LAMBDA ms :
        IF ms.ret = agent
        THEN Then(aec_step(ms, Get(actions, agent, Some(0))),
                  LAMBDA mt : StepLoopDefaulting(mt, Tail(list), actions))
        ELSE StepLoopDefaulting(ms, Tail(list), actions))

\* The loop ending after the first listed agent.
StepLoopFirstOnly(m, list, actions) ==
    IF list = <<>> THEN { m }
    ELSE
      LET agent == Head(list) IN
      IF agent \in DOMAIN actions
      THEN Then(aec_agent_selection(m), LAMBDA ms :
             IF ms.ret = agent THEN aec_step(ms, actions[agent]) ELSE { ms })
      ELSE { m }

\* env.py:455-462: the loop over the agents listed when the call started.
RECURSIVE StepLoop(_, _, _)
StepLoop(m, list, actions) ==
    IF list = <<>> THEN { m }
    ELSE
      LET agent == Head(list) IN
      IF agent \in DOMAIN actions
      THEN Then(aec_agent_selection(m), LAMBDA ms :
             IF ms.ret = agent
             THEN Then(aec_step(ms, actions[agent]),
                       LAMBDA mt : StepLoop(mt, Tail(list), actions))
             ELSE StepLoop(ms, Tail(list), actions))
      ELSE StepLoop(m, Tail(list), actions)

\* {agent: self._aec_env.observe(agent) for agent in agents}
RECURSIVE ObserveAll(_, _, _)
ObserveAll(m, list, acc) ==
    IF list = <<>> THEN { Return(m, acc) }
    ELSE Then(aec_observe(m, Head(list)), LAMBDA mo :
           ObserveAll(mo, Tail(list), DictSet(acc, Head(list), mo.ret)))

\* The collection observing every possible agent instead of the agents
\* active after the round.
CollectForPossible(m) ==
    Then(aec_agents(m), LAMBDA mc :
      Then(ObserveAll(mc, mc.possible_agents, EmptyDict), LAMBDA mo :
        Then(aec_rewards(mo), LAMBDA mr :
          Then(aec_terminations(mr), LAMBDA mt :
            Then(aec_truncations(mt), LAMBDA mu :
              Then(aec_infos(mu), LAMBDA mi :
                { Return(mi, [observations |-> mo.ret, rewards |-> mr.ret,
                              terminations |-> mt.ret, truncations |-> mu.ret,
                              infos |-> mi.ret]) }))))))

\* env.py:464-474
Collect(m) ==
    Then(aec_agents(m), LAMBDA mc :
      Then(ObserveAll(mc, mc.ret, EmptyDict), LAMBDA mo :
        Then(aec_rewards(mo), LAMBDA mr :
          Then(aec_terminations(mr), LAMBDA mt :
            Then(aec_truncations(mt), LAMBDA mu :
              Then(aec_infos(mu), LAMBDA mi :
                { Return(mi, [observations |-> mo.ret, rewards |-> mr.ret,
                              terminations |-> mt.ret, truncations |-> mu.ret,
                              infos |-> mi.ret]) }))))))

\* env.py:434-474
parallel_step(m, actions) ==
    Then(aec_agents(m), LAMBDA ma :
      Then(StepLoop(ma, ma.ret, actions), LAMBDA ml : Collect(ml)))

\* The parallel reset resetting without the caller's seed.
parallel_reset_unseeded(m, seed) ==
    Then(aec_reset(m, None), LAMBDA mr :
      Then(aec_agents(mr), LAMBDA ma :
        Then(ObserveAll(ma, ma.ret, EmptyDict), LAMBDA mo :
          Then(aec_infos(mo), LAMBDA mi :
            { Return(mi, [observations |-> mo.ret, infos |-> mi.ret]) }))))

\* env.py:410-432
parallel_reset(m, seed) ==
    Then(aec_reset(m, seed), LAMBDA mr :
      Then(aec_agents(mr), LAMBDA ma :
        Then(ObserveAll(ma, ma.ret, EmptyDict), LAMBDA mo :
          Then(aec_infos(mo), LAMBDA mi :
            { Return(mi, [observations |-> mo.ret, infos |-> mi.ret]) }))))

\* env.py:492-494
parallel_close(m) == aec_close(m)

----------------------------------------------------------------------------
(* The state machine.                                                      *)

AllAgents == UNION { Range(l) : l \in ServerAgentLists }
OptActions == {None} \cup {Some(a) : a \in Actions}
OptSeeds == {None} \cup {Some(s) : s \in Seeds}
\* The action maps a caller passes to the parallel step.
ActionKeys == {"a", "b"}
ActionMaps == UNION { [D -> OptActions] : D \in SUBSET ActionKeys }

\* The program state a call starts from.
Pre == [ws |-> ws, connected |-> connected, possible_agents |-> possible_agents,
        observation_spaces |-> observation_spaces, action_spaces |-> action_spaces,
        srv |-> srv, inbox |-> inbox, iter |-> iter]

NoArgs == [none |-> TRUE]

\* No episode loop is running.
NoLoop == [pc |-> "off", action |-> None]

\* The max_iter arguments callers pass: the default, or a number.
MaxIters == {None, Some(0), Some(MaxIter)}

\* A thread outside _send, with the outcome of its last call; a thread
\* inside _send, before ws.send or before ws.recv.
ThreadIdle(exc, reply) == [pc |-> "idle", cmd |-> None, answer |-> None,
                           reply |-> reply, exc |-> exc]
ThreadAt(pc, cmd, answer) == [pc |-> pc, cmd |-> Some(cmd), answer |-> answer,
                              reply |-> None, exc |-> NoExc]

\* The commands the threads send.
ThreadCommands == {[cmd |-> "reset"], [cmd |-> "step", action |-> 0],
                   [cmd |-> "agent_selection"]}

Idle == [op |-> "idle"]

\* A method is called on the constructed object when no call is in progress.
Caller(o) == call = Idle /\ obj = o

\* The server accepted a reset in one of the exchanges.
ResetApplied(trace) ==
    \E i \in 1..Len(trace) :
        trace[i].cmd.cmd = "reset" /\ "error" \notin DOMAIN trace[i].answer

\* The call ended in machine r: the program state, the server and the socket.
CommitMachine(op, args, r) ==
    /\ ws' = r.ws
    /\ connected' = r.connected
    /\ possible_agents' = r.possible_agents
    /\ observation_spaces' = r.observation_spaces
    /\ action_spaces' = r.action_spaces
    /\ srv' = r.srv
    /\ inbox' = r.inbox
    /\ call' = [op |-> op, args |-> args, exc |-> r.exc, ret |-> r.ret,
                trace |-> r.trace, opened |-> r.opened, live |-> r.live,
                peak |-> r.peak, pre |-> Pre]
    /\ UNCHANGED <<obj, render_mode, late, policies, versions, threads>>

\* The generator after a call that was not made on it.
IterAfterCall(it, r) ==
    IF ResetApplied(r.trace) THEN [it EXCEPT !.begun = 0] ELSE it

\* A call of a method ended in machine r.
Commit(op, args, r) ==
    /\ CommitMachine(op, args, r)
    /\ iter' = IterAfterCall(iter, r)
    /\ UNCHANGED loop

\* env.py:57-81 up to the auto_connect test; client.py:40-50.
Init ==
    /\ obj \in {"client", "env"}
    /\ ws = "None"
    /\ connected = FALSE
    /\ possible_agents = <<>>
    /\ observation_spaces = EmptyDict
    /\ action_spaces = EmptyDict
    /\ render_mode \in IF obj = "env" THEN {"None", "human"} ELSE {"None"}
    /\ srv = NoServer
    /\ inbox = <<>>
    /\ late = FALSE
    /\ policies = {"at_once"}
    /\ versions = {"current"}
    /\ iter = NoIter
    /\ loop = NoLoop
    /\ threads = <<>>
    /\ call = Idle

\* A bare client on a network that delivers late the replies whose recv
\* timed out.
InitLate ==
    /\ obj = "client"
    /\ ws = "None"
    /\ connected = FALSE
    /\ possible_agents = <<>>
    /\ observation_spaces = EmptyDict
    /\ action_spaces = EmptyDict
    /\ render_mode = "None"
    /\ srv = NoServer
    /\ inbox = <<>>
    /\ late = TRUE
    /\ policies = {"at_once"}
    /\ versions = {"current"}
    /\ iter = NoIter
    /\ loop = NoLoop
    /\ threads = <<>>
    /\ call = Idle

\* An adapter whose caller iterates over the agents, against a server of
\* either removal policy.
InitEpisode ==
    /\ obj = "env"
    /\ ws = "None"
    /\ connected = FALSE
    /\ possible_agents = <<>>
    /\ observation_spaces = EmptyDict
    /\ action_spaces = EmptyDict
    /\ render_mode = "None"
    /\ srv = NoServer
    /\ inbox = <<>>
    /\ late = FALSE
    /\ policies = RemovalPolicies
    /\ versions = {"current"}
    /\ iter = NoIter
    /\ loop = NoLoop
    /\ threads = <<>>
    /\ call = Idle

\* An adapter whose server may be of another protocol version.
InitReplies ==
    /\ obj = "env"
    /\ ws = "None"
    /\ connected = FALSE
    /\ possible_agents = <<>>
    /\ observation_spaces = EmptyDict
    /\ action_spaces = EmptyDict
    /\ render_mode = "None"
    /\ srv = NoServer
    /\ inbox = <<>>
    /\ late = FALSE
    /\ policies = RemovalPolicies
    /\ versions = Versions
    /\ iter = NoIter
    /\ loop = NoLoop
    /\ threads = <<>>
    /\ call = Idle

\* An adapter handed to run_episode (examples/train_pettingzoo.py:93-118).
InitLoop ==
    /\ obj = "env"
    /\ ws = "None"
    /\ connected = FALSE
    /\ possible_agents = <<>>
    /\ observation_spaces = EmptyDict
    /\ action_spaces = EmptyDict
    /\ render_mode = "None"
    /\ srv = NoServer
    /\ inbox = <<>>
    /\ late = FALSE
    /\ policies = RemovalPolicies
    /\ versions = {"current"}
    /\ iter = NoIter
    /\ loop = [pc |-> "reset", action |-> None]
    /\ threads = <<>>
    /\ call = Idle

\* A bare client that threads share.
InitThreads ==
    /\ obj = "client"
    /\ ws = "None"
    /\ connected = FALSE
    /\ possible_agents = <<>>
    /\ observation_spaces = EmptyDict
    /\ action_spaces = EmptyDict
    /\ render_mode = "None"
    /\ srv = NoServer
    /\ inbox = <<>>
    /\ late = FALSE
    /\ policies = {"at_once"}
    /\ versions = {"current"}
    /\ iter = NoIter
    /\ loop = NoLoop
    /\ threads = [t \in ThreadIds |-> ThreadIdle(NoExc, None)]
    /\ call = Idle

\* The space functions of spaces.py, applied to descriptors.
InitSpaces ==
    /\ obj = "spaces"
    /\ ws = "None"
    /\ connected = FALSE
    /\ possible_agents = <<>>
    /\ observation_spaces = EmptyDict
    /\ action_spaces = EmptyDict
    /\ render_mode = "None"
    /\ srv = NoServer
    /\ inbox = <<>>
    /\ late = FALSE
    /\ policies = {"at_once"}
    /\ versions = {"current"}
    /\ iter = NoIter
    /\ loop = NoLoop
    /\ threads = <<>>
    /\ call = Idle

\* The adapter's methods.
Enter == Caller("env") /\ \E r \in aec_enter(Machine) : Commit("enter", NoArgs, r)
Reset ==
    Caller("env") /\ \E seed \in OptSeeds :
        \E r \in aec_reset(Machine, seed) : Commit("reset", [seed |-> seed], r)
Step ==
    Caller("env") /\ \E action \in OptActions :
        \E r \in aec_step(Machine, action) : Commit("step", [action |-> action], r)
PossibleAgents ==
    Caller("env") /\ \E r \in aec_possible_agents(Machine) :
        Commit("possible_agents", NoArgs, r)
Agents == Caller("env") /\ \E r \in aec_agents(Machine) : Commit("agents", NoArgs, r)
AgentSelection ==
    Caller("env") /\ \E r \in aec_agent_selection(Machine) :
        Commit("agent_selection", NoArgs, r)
Observe ==
    Caller("env") /\ \E agent \in AllAgents :
        \E r \in aec_observe(Machine, agent) : Commit("observe", [agent |-> agent], r)
Last ==
    Caller("env") /\ \E observe \in BOOLEAN :
        \E r \in aec_last(Machine, observe) : Commit("last", [observe |-> observe], r)
ActionMask ==
    Caller("env") /\ \E agent \in AllAgents :
        \E r \in aec_action_mask(Machine, agent) :
            Commit("action_mask", [agent |-> agent], r)
Rewards == Caller("env") /\ \E r \in aec_rewards(Machine) : Commit("rewards", NoArgs, r)
Terminations ==
    Caller("env") /\ \E r \in aec_terminations(Machine) : Commit("terminations", NoArgs, r)
Truncations ==
    Caller("env") /\ \E r \in aec_truncations(Machine) : Commit("truncations", NoArgs, r)
Infos == Caller("env") /\ \E r \in aec_infos(Machine) : Commit("infos", NoArgs, r)
Close == Caller("env") /\ \E r \in aec_close(Machine) : Commit("close", NoArgs, r)
ParallelStep ==
    Caller("env") /\ \E actions \in ActionMaps :
        \E r \in parallel_step(Machine, actions) :
            Commit("parallel_step", [actions |-> actions], r)
ParallelReset ==
    Caller("env") /\ \E seed \in OptSeeds :
        \E r \in parallel_reset(Machine, seed) :
            Commit("parallel_reset", [seed |-> seed], r)
ParallelClose ==
    Caller("env") /\ \E r \in parallel_close(Machine) : Commit("parallel_close", NoArgs, r)

\* The bare client's methods.
ClientConnect ==
    Caller("client") /\ \E r \in client_connect(Machine) : Commit("client_connect", NoArgs, r)
ClientDisconnect ==
    Caller("client") /\ Commit("client_disconnect", NoArgs, disconnect(Machine))
ClientReset ==
    Caller("client") /\ \E seed \in OptSeeds :
        \E r \in client_reset(Machine, seed) : Commit("client_reset", [seed |-> seed], r)
ClientStep ==
    Caller("client") /\ \E action \in Actions :
        \E r \in client_step(Machine, action) :
            Commit("client_step", [action |-> Some(action)], r)
ClientAgents ==
    Caller("client") /\ \E r \in client_agents(Machine) : Commit("client_agents", NoArgs, r)
ClientAgentSelection ==
    Caller("client") /\ \E r \in client_agent_selection(Machine) :
        Commit("client_agent_selection", NoArgs, r)
ClientObserve ==
    Caller("client") /\ \E agent \in AllAgents :
        \E r \in client_observe(Machine, agent) :
            Commit("client_observe", [agent |-> agent], r)
ClientClose ==
    Caller("client") /\ \E r \in client_close(Machine) : Commit("client_close", NoArgs, r)

\* env.py:272-294: calling agent_iter returns a new generator; none of its
\* code has run yet.
AgentIter ==
    /\ Caller("env")
    /\ \E max_iter \in MaxIters :
          /\ iter' = NewIter(iter, max_iter)
          /\ CommitMachine("agent_iter", [max_iter |-> max_iter], Machine)
    /\ UNCHANGED loop

\* next() on the generator.
IterNext ==
    /\ Caller("env")
    /\ iter.state # "none"
    /\ \E r \in agent_iter_next(Machine, iter) :
          /\ CommitMachine("next", NoArgs, r)
          /\ iter' = IterAfterNext(iter, r)
    /\ UNCHANGED loop

\* run_episode, examples/train_pettingzoo.py:93-118.
LoopAt(pc) == Caller("env") /\ loop.pc = pc
LoopGoes(r, pc, action) ==
    loop' = IF Running(r) THEN [pc |-> pc, action |-> action]
            ELSE [pc |-> "failed", action |-> None]

\* line 104: env.reset()
LoopReset ==
    /\ LoopAt("reset")
    /\ \E r \in aec_reset(Machine, None) :
          /\ CommitMachine("reset", [seed |-> None], r)
          /\ iter' = IterAfterCall(iter, r)
          /\ LoopGoes(r, "iter", None)

\* line 106: env.agent_iter()
LoopIter ==
    /\ LoopAt("iter")
    /\ iter' = NewIter(iter, None)
    /\ CommitMachine("agent_iter", [max_iter |-> None], Machine)
    /\ loop' = [pc |-> "next", action |-> None]

\* line 106: the for statement takes the next agent, or leaves the loop.
LoopNext ==
    /\ LoopAt("next")
    /\ \E r \in agent_iter_next(Machine, iter) :
          /\ CommitMachine("next", NoArgs, r)
          /\ iter' = IterAfterNext(iter, r)
          /\ loop' = IF Running(r) THEN [pc |-> "last", action |-> None]
                     ELSE IF r.exc = StopIteration THEN [pc |-> "rewards", action |-> None]
                     ELSE [pc |-> "failed", action |-> None]

\* lines 107-110: env.last(), and None as the action of a finished agent.
LoopLast ==
    /\ LoopAt("last")
    /\ \E r \in aec_last(Machine, TRUE) :
          /\ CommitMachine("last", [observe |-> TRUE], r)
          /\ UNCHANGED iter
          /\ IF Running(r) /\ ~(r.ret.terminated \/ r.ret.truncated)
             THEN LoopGoes(r, "policy", None)
             ELSE LoopGoes(r, "step", None)

\* lines 111-114: the action mask, the agent's action space, and the action
\* the policy picks.
LoopPolicy ==
    /\ LoopAt("policy")
    /\ \E m \in aec_action_mask(Machine, iter.prev[1]) :
          LET r == IF Running(m) /\ iter.prev[1] \notin DOMAIN m.action_spaces
                   THEN Raise(m, KeyErrorExc(iter.prev[1])) ELSE m
          IN  /\ CommitMachine("action_mask", [agent |-> iter.prev[1]], r)
              /\ UNCHANGED iter
              /\ \E action \in Actions : LoopGoes(r, "step", Some(action))

\* line 116: env.step(action)
LoopStep ==
    /\ LoopAt("step")
    /\ \E r \in aec_step(Machine, loop.action) :
          /\ CommitMachine("step", [action |-> loop.action], r)
          /\ UNCHANGED iter
          /\ LoopGoes(r, "next", None)

\* line 118: return env.rewards()
LoopRewards ==
    /\ LoopAt("rewards")
    /\ \E r \in aec_rewards(Machine) :
          /\ CommitMachine("rewards", NoArgs, r)
          /\ UNCHANGED iter
          /\ LoopGoes(r, "end", None)

\* Threads inside _send (client.py:71-93), one statement at a time.
ThreadFrame ==
    UNCHANGED <<obj, connected, possible_agents, observation_spaces, action_spaces,
                render_mode, late, policies, versions, iter, loop, call>>

\* The threads run once the client is constructed; connect is called
\* while none of them is inside _send.
ThreadsConnect ==
    /\ \A t \in ThreadIds : threads[t].pc = "idle"
    /\ Caller("client")
    /\ \E r \in client_connect(Machine) : Commit("client_connect", NoArgs, r)

\* client.py:84-85
ThreadCall(t) ==
    /\ threads[t].pc = "idle"
    /\ \E cmd \in ThreadCommands :
          threads' = [threads EXCEPT ![t] =
                        IF ws = "None" THEN ThreadIdle(NotConnectedExc, None)
                        ELSE ThreadAt("send", cmd, None)]
    /\ UNCHANGED <<ws, srv, inbox>>
    /\ ThreadFrame

\* client.py:87: the command is written; the server handles it and its reply
\* is on its way, unless the connection loses it.
ThreadSend(t) ==
    /\ threads[t].pc = "send"
    /\ \/ /\ threads' = [threads EXCEPT ![t] = ThreadIdle(WebSocketExc("send"), None)]
          /\ UNCHANGED <<srv, inbox>>
       \/ \E h \in ServerHandle(srv, threads[t].cmd[1]) :
             /\ srv' = h.srv
             /\ inbox' \in {Append(inbox, h.reply), inbox}
             /\ threads' = [threads EXCEPT ![t] =
                              ThreadAt("recv", threads[t].cmd[1], Some(h.reply))]
    /\ UNCHANGED ws
    /\ ThreadFrame

\* client.py:88-93: recv returns the oldest message the socket holds, or
\* times out when it holds none.
ThreadRecv(t) ==
    /\ threads[t].pc = "recv"
    /\ IF inbox = <<>>
       THEN /\ threads' = [threads EXCEPT ![t] = ThreadIdle(WebSocketExc("recv"), None)]
            /\ UNCHANGED inbox
       ELSE LET response == Head(inbox) IN
            /\ inbox' = Tail(inbox)
            /\ threads' = [threads EXCEPT ![t] =
                             IF "error" \in DOMAIN response
                             THEN ThreadIdle(ServerErrorExc(response.error), None)
                             ELSE ThreadIdle(NoExc, Some(response))]
    /\ UNCHANGED <<ws, srv>>
    /\ ThreadFrame

\* Control is back with the caller, which holds the outcome of the call.
\* A call of a function of spaces.py: it touches no state of the client.
CommitPure(op, args, exc, ret) ==
    /\ call' = [op |-> op, args |-> args, exc |-> exc, ret |-> ret,
                trace |-> <<>>, opened |-> 0, live |-> 0, peak |-> 0, pre |-> Pre]
    /\ UNCHANGED <<obj, ws, connected, possible_agents, observation_spaces, action_spaces,
                   render_mode, srv, inbox, late, policies, versions, iter, loop, threads>>

\* convert_space(space_def)
ConvertSpace ==
    Caller("spaces") /\ \E d \in ServerSpaceDefs \cup OtherSpaceDefs :
        LET c == convert_space(d)
        IN  CommitPure("convert_space", [space_def |-> d],
                       IF c.ok THEN NoExc ELSE c.exc, IF c.ok THEN c.space ELSE None)

\* space_to_dict(convert_space(space_def))
RoundTrip ==
    Caller("spaces") /\ \E d \in ServerSpaceDefs :
        LET c == convert_space(d)
            b == space_to_dict(c.space)
        IN  IF ~c.ok THEN CommitPure("round_trip", [space_def |-> d], c.exc, None)
            ELSE CommitPure("round_trip", [space_def |-> d],
                            IF b.ok THEN NoExc ELSE b.exc, IF b.ok THEN b.dict ELSE None)

Returned ==
    /\ call # Idle
    /\ call' = Idle
    /\ UNCHANGED <<obj, ws, connected, possible_agents, observation_spaces, action_spaces,
                   render_mode, srv, inbox, late, policies, versions, iter, loop, threads>>

Next ==
    \/ Returned
    \/ Enter \/ Reset \/ Step \/ PossibleAgents \/ Agents \/ AgentSelection \/ Observe \/ Last
    \/ Rewards \/ Terminations \/ Truncations \/ Infos \/ Close
    \/ ParallelStep \/ ParallelReset \/ ParallelClose
    \/ ClientConnect \/ ClientDisconnect \/ ClientReset \/ ClientStep
    \/ ClientAgents \/ ClientAgentSelection \/ ClientObserve \/ ClientClose

Spec == Init /\ [][Next]_vars

NextLate ==
    \/ Returned
    \/ ClientConnect \/ ClientDisconnect \/ ClientReset \/ ClientStep
    \/ ClientAgents \/ ClientAgentSelection \/ ClientObserve \/ ClientClose

SpecLate == InitLate /\ [][NextLate]_vars

\* The adapter with its agent iteration.
NextEpisode ==
    \/ Returned
    \/ Reset \/ AgentIter \/ IterNext \/ Step

SpecEpisode == InitEpisode /\ [][NextEpisode]_vars

\* The adapter's queries against servers of either version.
NextReplies ==
    \/ Returned
    \/ Reset \/ Step \/ Last \/ ActionMask \/ Agents

SpecReplies == InitReplies /\ [][NextReplies]_vars

\* run_episode: each statement is executed once control reaches it.
NextLoop ==
    \/ Returned
    \/ LoopReset \/ LoopIter \/ LoopNext \/ LoopLast \/ LoopPolicy \/ LoopStep
    \/ LoopRewards

SpecLoop == InitLoop /\ [][NextLoop]_vars /\ WF_vars(NextLoop)

\* Threads sharing one client.
NextThreads ==
    \/ Returned
    \/ ThreadsConnect
    \/ \E t \in ThreadIds : ThreadCall(t) \/ ThreadSend(t) \/ ThreadRecv(t)

SpecThreads == InitThreads /\ [][NextThreads]_vars

\* The space functions on their own.
NextSpaces == Returned \/ ConvertSpace \/ RoundTrip

SpecSpaces == InitSpaces /\ [][NextSpaces]_vars

----------------------------------------------------------------------------
(* Vocabulary of the properties.                                           *)

Called(ops) == call # Idle /\ call.op \in ops
Completed == call.exc = NoExc

\* The exchanges of the call that carried a step command.
StepEntries == { i \in 1..Len(call.trace) : call.trace[i].cmd.cmd = "step" }
\* Those the server applied to agent x: x was selected when it handled them
\* and it did not answer with an error.
AppliedTo(x) ==
    { i \in StepEntries :
        call.trace[i].by = x /\ "error" \notin DOMAIN call.trace[i].reply }

\* The agents active when the call started, and after it.
ActiveAtStart == Range(call.pre.srv.agents)
ActiveNow == Range(srv.agents)

\* The adapter's own fields are as when the call started.
AdapterAsBefore ==
    /\ ws = call.pre.ws
    /\ connected = call.pre.connected
    /\ possible_agents = call.pre.possible_agents
    /\ observation_spaces = call.pre.observation_spaces
    /\ action_spaces = call.pre.action_spaces

\* The server's turn and active set are as when the call started.
TurnAsBefore == srv.sel = call.pre.srv.sel /\ srv.agents = call.pre.srv.agents

AdapterOps == {"enter", "reset", "step", "agents", "agent_selection", "observe", "last",
               "rewards", "terminations", "truncations", "infos", "close",
               "parallel_step", "parallel_reset", "parallel_close"}

----------------------------------------------------------------------------
(* C1. One parallel step that runs to completion, with a (non-null) action *)
(* supplied for every agent active when it started, has exactly one        *)
(* underlying step applied to each of those agents, whatever the server's  *)
(* turn order.                                                             *)
C1_OneStepPerActiveAgent ==
    ( /\ Called({"parallel_step"})
      /\ Completed
      /\ call.pre.connected
      /\ \A x \in ActiveAtStart :
            x \in DOMAIN call.args.actions /\ call.args.actions[x] # None )
    => \A x \in ActiveAtStart : Cardinality(AppliedTo(x)) = 1

(* C2. Every step command a parallel step sends carries actions[X], X the  *)
(* agent the server reported as selected in the exchange just before it.   *)
C2_StepCarriesSelectedAgentsAction ==
    Called({"parallel_step"}) =>
      \A i \in StepEntries :
        /\ i > 1
        /\ call.trace[i - 1].cmd.cmd = "agent_selection"
        /\ "agent" \in DOMAIN call.trace[i - 1].reply
        /\ LET X == call.trace[i - 1].reply.agent
           IN  /\ X \in DOMAIN call.args.actions
               /\ call.args.actions[X] = Some(call.trace[i].cmd.action)

\* A parallel step that stepped two agents, whose actions differ.
C2_Witness ==
    /\ Called({"parallel_step"})
    /\ Completed
    /\ Cardinality(StepEntries) = 2
    /\ DOMAIN call.args.actions = {"a", "b"}
    /\ call.args.actions["a"] # call.args.actions["b"]

(* C3. The reward, termination, truncation and info maps a parallel step   *)
(* returns are keyed by exactly the agents active when the call started.   *)
C3_MapsKeyedByAgentsAtStart ==
    ( /\ Called({"parallel_step"})
      /\ Completed
      /\ call.pre.connected
      /\ ActiveAtStart # {} )
    => /\ DOMAIN call.ret.rewards = ActiveAtStart
       /\ DOMAIN call.ret.terminations = ActiveAtStart
       /\ DOMAIN call.ret.truncations = ActiveAtStart
       /\ DOMAIN call.ret.infos = ActiveAtStart

(* C4. When the step reads the server's reply to its step command and the  *)
(* reply carries an error field, the step raises an error whose message    *)
(* contains the server's error string, the command is not sent again, and  *)
(* the adapter's fields and the agent the server has selected are as       *)
(* before the call.                                                        *)
StepRejected ==
    /\ Called({"step", "client_step"})
    /\ call.trace # <<>>
    /\ call.trace[1].cmd.cmd = "step"
    /\ call.trace[1].ahead = 0
    /\ call.trace[1].reply = call.trace[1].answer
    /\ "error" \in DOMAIN call.trace[1].reply

C4_StepErrorRaisedOnce ==
    StepRejected =>
      /\ call.exc.kind = "RuntimeError"
      /\ \E i \in 1..Len(call.exc.msg) : call.exc.msg[i] = call.trace[1].reply.error
      /\ Len(call.trace) = 1
      /\ AdapterAsBefore
      /\ srv.sel = call.pre.srv.sel

\* The adapter's step rejected with "invalid action" in mid-episode, with
\* rendering on.
C4_Witness ==
    /\ StepRejected
    /\ call.op = "step"
    /\ call.trace[1].reply.error = "invalid action"
    /\ call.pre.srv.sel # ""
    /\ render_mode = "human"

(* C5. A parallel step that fails (for another reason than the loss of the *)
(* reply to a step the server applied) leaves the server's selected agent  *)
(* and active set as they were before the call.                            *)
C5_FailedParallelStepAdvancesNothing ==
    ( /\ Called({"parallel_step"})
      /\ ~Completed
      /\ call.pre.connected
      /\ \A i \in StepEntries : call.trace[i].reply # NoReply )
    => TurnAsBefore

(* C6. A connect that fails after the socket was opened leaves the adapter *)
(* as before the call: not connected, its caches empty.                    *)
C6_FailedConnectLeavesDisconnected ==
    ( /\ Called({"enter"})
      /\ ~call.pre.connected
      /\ call.opened = 1
      /\ ~Completed )
    => /\ connected = FALSE
       /\ possible_agents = call.pre.possible_agents
       /\ observation_spaces = call.pre.observation_spaces
       /\ action_spaces = call.pre.action_spaces

(* C7. close never raises and ends with the connection closed, on the      *)
(* client and on both adapters, in every state; closing what is already    *)
(* closed sends nothing and changes nothing.                               *)
C7_CloseNeverRaises ==
    Called({"close", "parallel_close", "client_close"}) =>
      /\ Completed
      /\ ws = "None"
      /\ connected = FALSE
      /\ (call.pre.ws = "None" /\ ~call.pre.connected) =>
            (call.trace = <<>> /\ AdapterAsBefore)

\* An adapter closed while the server answers the close command with an error.
C7_Witness ==
    /\ Called({"close"})
    /\ call.pre.connected
    /\ call.trace # <<>>
    /\ "error" \in DOMAIN call.trace[1].reply
    /\ ws = "None"

(* C8. On an adapter that was closed, no method but an explicit connect    *)
(* opens a connection or sends a command.                                  *)
\* The adapter is not connected and holds the agent list of a connection it had.
WasClosed == ~call.pre.connected /\ call.pre.possible_agents # <<>>

C8_ClosedAdapterStaysSilent ==
    (Called(AdapterOps \ {"enter"}) /\ WasClosed) =>
      (call.opened = 0 /\ call.trace = <<>>)

(* C9. A send attempted while the client holds no socket fails with the    *)
(* not-connected error, transmits nothing, consumes nothing and leaves the *)
(* client disconnected.                                                    *)
SendingOps == {"client_reset", "client_step", "client_agents", "client_agent_selection",
               "client_observe", "observe", "rewards", "terminations", "truncations",
               "infos"}

C9_SendWhileDisconnected ==
    (Called(SendingOps) /\ call.pre.ws = "None") =>
      /\ call.exc = NotConnectedExc
      /\ call.trace = <<>>
      /\ call.opened = 0
      /\ inbox = call.pre.inbox
      /\ ws = "None"

\* A step sent on a client that holds no socket.
C9_Witness ==
    /\ Called({"client_step"})
    /\ call.pre.ws = "None"
    /\ call.exc = NotConnectedExc

(* C10. Every adapter operation that needs the server, attempted on an     *)
(* adapter that is not connected, raises the not-connected error.          *)
C10_NotConnectedSurfaced ==
    ( /\ Called({"agents", "agent_selection", "step", "last", "observe", "rewards",
                 "terminations", "truncations", "infos"})
      /\ call.op = "step" => call.args.action # None
      /\ ~call.pre.connected )
    => call.exc = NotConnectedExc

(* C11. The reply a call of the client returns to its caller is the        *)
(* server's reply to the command this same call sent: every message a call *)
(* reads had no undelivered reply of an earlier call ahead of it, also     *)
(* after calls that a receive timeout or an error reply aborted.           *)
ClientOps == {"client_reset", "client_step", "client_agents", "client_agent_selection",
              "client_observe", "client_close"}

C11_RepliesPaired ==
    Called(ClientOps) =>
      \A i \in 1..Len(call.trace) :
        call.trace[i].reply # NoReply =>
          (call.trace[i].ahead = 0 /\ call.trace[i].reply = call.trace[i].answer)

(* C12. At most one request is outstanding on a connection: while one      *)
(* thread has written its command and has not yet received a reply, no     *)
(* other thread writes a command to the same client's socket.              *)
Outstanding == { t \in ThreadIds : threads[t].pc = "recv" }

C12_OneRequestOutstanding == Cardinality(Outstanding) <= 1

(* C13. Within one connection the adapter's possible-agent list and its    *)
(* cached spaces do not change: a reset, step, last, observe or state      *)
(* query on a connected adapter leaves them as they were, possible_agents  *)
(* returns the cached list, and reset sends no possible_agents,            *)
(* observation_space or action_space command.                              *)
FetchCommands == {"possible_agents", "observation_space", "action_space"}

C13_AgentListAndSpacesInvariant ==
    ( /\ Called({"reset", "step", "last", "observe", "possible_agents", "agents",
                 "agent_selection", "rewards", "terminations", "truncations", "infos"})
      /\ call.pre.connected )
    => /\ possible_agents = call.pre.possible_agents
       /\ observation_spaces = call.pre.observation_spaces
       /\ action_spaces = call.pre.action_spaces
       /\ call.op = "possible_agents" => call.ret = call.pre.possible_agents
       /\ call.op = "reset" =>
            \A i \in 1..Len(call.trace) : call.trace[i].cmd.cmd \notin FetchCommands

\* A second reset, in mid-episode, on an adapter that cached two agents.
C13_Witness ==
    /\ Called({"reset"})
    /\ Completed
    /\ call.pre.connected
    /\ call.pre.srv.agents # <<>>
    /\ possible_agents = <<"a", "b">>
    /\ DOMAIN observation_spaces = {"a", "b"}

(* C14. A successful connect of the adapter with N possible agents makes   *)
(* exactly 1 + 2N round trips: one possible_agents, then one               *)
(* observation_space and one action_space per agent; afterwards both space *)
(* caches have an entry for every possible agent and for no other agent.   *)
ConnectSucceeded ==
    /\ Called({"enter"})
    /\ ~call.pre.connected
    /\ call.opened = 1
    /\ Completed

RoundTripsOfConnect ==
    LET N == Len(possible_agents) IN
    /\ Len(call.trace) = 1 + 2 * N
    /\ call.trace[1].cmd = [cmd |-> "possible_agents"]
    /\ \A k \in 1..N :
         /\ call.trace[2 * k].cmd =
              [cmd |-> "observation_space", agent |-> possible_agents[k]]
         /\ call.trace[2 * k + 1].cmd =
              [cmd |-> "action_space", agent |-> possible_agents[k]]

C14_ConnectFetchesEverySpaceOnce ==
    ConnectSucceeded =>
      /\ RoundTripsOfConnect
      /\ DOMAIN observation_spaces = Range(possible_agents)
      /\ DOMAIN action_spaces = Range(possible_agents)

\* The round trips alone, and the caches of an adapter that had none.
C14_RoundTrips == ConnectSucceeded => RoundTripsOfConnect
C14_FirstConnect ==
    (ConnectSucceeded /\ call.pre.observation_spaces = EmptyDict
                      /\ call.pre.action_spaces = EmptyDict)
    => /\ DOMAIN observation_spaces = Range(possible_agents)
       /\ DOMAIN action_spaces = Range(possible_agents)

(* C15. agent_iter yields an agent only if last() would report it neither  *)
(* terminated nor truncated at that moment, and it does not yield the      *)
(* agent it yielded just before unless exactly one agent is active.        *)
Yielded == Called({"next"}) /\ Completed

YieldedUnfinished == Yielded => call.ret \notin srv.done
YieldedInTurn ==
    (Yielded /\ call.pre.iter.prev = Some(call.ret)) => Len(srv.agents) = 1

C15_YieldsOnlyUnfinishedAgents == YieldedUnfinished /\ YieldedInTurn

(* C16. The documented episode loop terminates: against a server that      *)
(* removes a finished agent only on that agent's step, once every active   *)
(* agent is finished the loop goes on to leave agent_iter with the active  *)
(* set empty (or is left by an exception).                                 *)
InLoop == loop.pc \in {"next", "last", "policy", "step"}

AllFinished ==
    /\ InLoop
    /\ srv.removal = "on_step"
    /\ srv.agents # <<>>
    /\ Range(srv.agents) \subseteq srv.done

LoopOver ==
    \/ loop.pc = "failed"
    \/ loop.pc \in {"rewards", "end"} /\ srv.agents = <<>>

C16_EpisodeLoopTerminates == AllFinished ~> LoopOver

(* C17. agent_iter is not restartable in mid-episode: a generator that is  *)
(* the second one started since the last reset, asked for its next agent   *)
(* while the active set is not empty, yields no agent.                     *)
C17_SecondSequenceYieldsNothing ==
    ( /\ Called({"next"})
      /\ call.pre.iter.state # "stopped"
      /\ BegunNow(call.pre.iter) = 2
      /\ call.pre.srv.agents # <<>> )
    => ~Completed

(* C18. A step with a non-null action on a connected adapter is not        *)
(* validated by the client: whatever the selected agent's status, the      *)
(* first thing sent is one step command carrying that action, no other     *)
(* step and no status or mask query is sent, and the call is rejected only *)
(* with the error of the server's reply (unless the socket itself fails).  *)
StepWithAction ==
    /\ Called({"step"})
    /\ call.args.action # None
    /\ call.pre.ws # "None"

C18_StepForwardsUnvalidated ==
    StepWithAction =>
      \/ call.trace = <<>> /\ call.exc = WebSocketExc("send")
      \/ /\ call.trace # <<>>
         /\ call.trace[1].cmd = [cmd |-> "step", action |-> call.args.action[1]]
         /\ StepEntries = {1}
         /\ \A i \in 1..Len(call.trace) : call.trace[i].cmd.cmd \in {"step", "render"}
         /\ \/ Completed
            \/ call.exc.kind = "WebSocketException"
            \/ LET reply == call.trace[Len(call.trace)].reply
               IN  "error" \in DOMAIN reply /\ call.exc = ServerErrorExc(reply.error)

\* Action 1 for a selected agent that is finished, rejected by the server.
C18_Witness ==
    /\ StepWithAction
    /\ call.args.action = Some(1)
    /\ call.pre.srv.sel \in call.pre.srv.done
    /\ Len(call.trace) = 1
    /\ call.exc = ServerErrorExc("invalid action")

\* Action 1 for a finished agent, accepted by the server.
C18_Accepted ==
    /\ StepWithAction
    /\ call.pre.srv.sel \in call.pre.srv.done
    /\ Completed

(* C19. step(None) on a connected adapter while the selected agent is not  *)
(* finished is forwarded to the server as a step command (unless the       *)
(* socket fails to send it).                                               *)
NullStep ==
    /\ Called({"step"})
    /\ call.args.action = None
    /\ call.pre.ws # "None"

C19_NullStepForwarded ==
    ( /\ NullStep
      /\ call.pre.srv.sel # ""
      /\ call.pre.srv.sel \notin call.pre.srv.done )
    => \/ StepEntries # {}
       \/ call.exc = WebSocketExc("send")

(* C20. step(None) for a finished agent is a no-op: with rendering off it  *)
(* sends no command, raises nothing, and the server's selected agent,      *)
(* active set and finished agents are as before the call.                  *)
C20_NullStepIsNoOp ==
    ( /\ NullStep
      /\ render_mode = "None"
      /\ call.pre.srv.sel \in call.pre.srv.done )
    => /\ call.trace = <<>>
       /\ Completed
       /\ srv = call.pre.srv
       /\ AdapterAsBefore

\* The skipped agent is finished and another agent is still active.
C20_Witness ==
    /\ NullStep
    /\ render_mode = "None"
    /\ call.pre.srv.sel \in call.pre.srv.done
    /\ Len(srv.agents) = 2
    /\ Completed

(* C21. last() returns the step result the server reports for the agent it *)
(* has selected, together with the observation of that same agent; with    *)
(* observe=False the observation is None and no observe command is sent.   *)
ResultFields == {"reward", "terminated", "truncated", "info"}

LastAnswered ==
    /\ Called({"last"})
    /\ Completed
    /\ ResultFields \subseteq DOMAIN call.trace[1].reply

C21_LastPairsResultAndObservation ==
    LastAnswered =>
      LET result == call.trace[1].reply
          agent  == call.trace[1].by
      IN  /\ call.trace[1].cmd = [cmd |-> "last"]
          /\ agent = srv.sel
          /\ call.ret.reward = result.reward
          /\ call.ret.terminated = result.terminated
          /\ call.ret.truncated = result.truncated
          /\ call.ret.info = result.info
          /\ IF call.args.observe
             THEN /\ Len(call.trace) = 3
                  /\ call.trace[3].cmd = [cmd |-> "observe", agent |-> agent]
                  /\ call.ret.obs = call.trace[3].reply.observation
             ELSE /\ call.ret.obs = None
                  /\ \A i \in 1..Len(call.trace) : call.trace[i].cmd.cmd # "observe"

\* last() while the second listed agent is selected and finished.
C21_Witness ==
    /\ LastAnswered
    /\ call.args.observe
    /\ srv.sel = "b"
    /\ call.ret.obs = <<"b">>
    /\ call.ret.terminated

(* C22. On a connected adapter every read of agents and of agent_selection *)
(* sends exactly one command, the matching query, and returns the value    *)
(* the server holds at that moment (unless the socket fails to send it).   *)
C22_ReadsAreLive ==
    (Called({"agents", "agent_selection"}) /\ call.pre.connected) =>
      \/ call.trace = <<>> /\ call.exc = WebSocketExc("send")
      \/ /\ Len(call.trace) = 1
         /\ call.trace[1].cmd = [cmd |-> call.op]
         /\ Completed =>
              call.ret = IF call.op = "agents" THEN srv.agents ELSE srv.sel

\* A read of agents after a step that removed the first of two agents.
C22_Witness ==
    /\ Called({"agents"})
    /\ Completed
    /\ call.pre.connected
    /\ possible_agents = <<"a", "b">>
    /\ call.ret = <<"b">>

(* C23. After a reset the list that agents returns is a non-empty subset   *)
(* of possible_agents, and until the next reset it only shrinks.           *)
AgentsRead == Called({"agents"}) /\ Completed /\ call.pre.connected

\* reset leaves a non-empty active set on the server
ResetStartsEpisode == (Called({"reset"}) /\ Completed) => srv.agents # <<>>

\* what agents returns is within what possible_agents returns
AgentsWithinPossible == AgentsRead => Range(call.ret) \subseteq Range(possible_agents)

\* a call that is no accepted reset adds no agent to the server's active set
AgentsShrink ==
    [][ (call' # Idle /\ ~ResetApplied(call'.trace))
          => Range(srv'.agents) \subseteq Range(srv.agents) ]_vars

C23_AgentsShrinkWithinPossible ==
    /\ []ResetStartsEpisode
    /\ []AgentsWithinPossible
    /\ AgentsShrink


----------------------------------------------------------------------------
(* C24.                                                                    *)

\* The exchanges of the call that carried a reset command.
ResetEntries == { i \in 1..Len(call.trace) : call.trace[i].cmd.cmd = "reset" }

\* The reset command a caller's seed argument asks for.
ResetCommand(seed) ==
    IF seed = None THEN [cmd |-> "reset"] ELSE [cmd |-> "reset", seed |-> seed[1]]

ParallelResetDone == Called({"parallel_reset"}) /\ Completed

----------------------------------------------------------------------------
(* C25.                                                                    *)

RoundTripMade == Called({"round_trip"})

\* C25: a descriptor converted to a space and back is the descriptor: the
\* same fields, each with the same value.
C25_SpaceRoundTrip ==
    RoundTripMade =>
        /\ Completed
        /\ DOMAIN call.ret = DOMAIN call.args.space_def
        /\ \A f \in DOMAIN call.args.space_def : call.ret[f] = call.args.space_def[f]

\* The part of it that holds: the round trip never fails, n and shape come
\* back as they were, and bounds that fit 24 bits come back as they were.
RoundTripKeepsGivenFields ==
    RoundTripMade =>
        /\ Completed
        /\ DOMAIN call.args.space_def \subseteq DOMAIN call.ret
        /\ \A f \in DOMAIN call.args.space_def \cap {"n", "shape"} :
              call.ret[f] = call.args.space_def[f]
        /\ \A f \in DOMAIN call.args.space_def \cap {"low", "high"} :
              \A i \in 1..Len(call.args.space_def[f]) :
                  call.args.space_def[f][i] \in {-1, 0, 1}
                      => call.ret[f][i] = call.args.space_def[f][i]


----------------------------------------------------------------------------
(* C26.                                                                    *)

\* __enter__ raised after it had opened a socket: the with statement is
\* left without __exit__ being called.
EnterFailedWithSocket == Called({"enter"}) /\ ~Completed /\ call.opened = 1

\* C26: when entering the scope fails after the socket was opened, the
\* socket is closed when control leaves the with statement.
C26_FailedEnterReleasesSocket == EnterFailedWithSocket => ws = "None"


----------------------------------------------------------------------------
(* C27.                                                                    *)

\* A connect that succeeded on an adapter closed after an earlier connection
\* had filled its caches.
Reconnected == ConnectSucceeded /\ call.pre.possible_agents # <<>>

\* C27: after a reconnect the cached agent list and both space caches hold
\* exactly what the server of the new connection reported.
C27_ReconnectRefillsCaches ==
    Reconnected =>
        /\ possible_agents = srv.possible
        /\ DOMAIN observation_spaces = Range(srv.possible)
        /\ DOMAIN action_spaces = Range(srv.possible)

\* The part of it that holds: the agent list is the new server's, and the
\* caches have an entry for each of its agents.
ReconnectCachesNewAgents ==
    Reconnected =>
        /\ possible_agents = srv.possible
        /\ Range(srv.possible) \subseteq DOMAIN observation_spaces
        /\ Range(srv.possible) \subseteq DOMAIN action_spaces


----------------------------------------------------------------------------
(* C28.                                                                    *)

MaskAnswered == Called({"action_mask"}) /\ Completed /\ Len(call.trace) = 1

\* The mask vector the reply carries, None when it carries none (no mask
\* field, or null).
CarriedMask == Get(call.trace[1].reply, "mask", None)

\* C28: action_mask returns the vector the reply carries, whatever its
\* length and values, and None exactly when the reply carries none.
C28_MaskReturnedAsCarried == MaskAnswered => call.ret = CarriedMask

\* The part of it that holds: a vector with entries is returned entry for
\* entry, all false included, and no vector is returned when none came.
NonEmptyMaskReturned ==
    MaskAnswered =>
        /\ (CarriedMask # None /\ CarriedMask[1] # <<>>) => call.ret = CarriedMask
        /\ CarriedMask = None => call.ret = None


----------------------------------------------------------------------------
(* C29.                                                                    *)

ClientCommandOps == {"client_reset", "client_step", "client_agents",
                     "client_agent_selection", "client_observe"}

\* The command name each of these methods sends.
CommandOf(op) ==
    CASE op = "client_reset" -> "reset"
      [] op = "client_step" -> "step"
      [] op = "client_agents" -> "agents"
      [] op = "client_agent_selection" -> "agent_selection"
      [] op = "client_observe" -> "observe"

\* A command method was called on a client holding a socket.
CommandCalled == Called(ClientCommandOps) /\ call.pre.ws # "None"

\* The socket itself failed in the call: ws.send or ws.recv raised.
TransportFailed == call.exc.kind = "WebSocketException"

\* C29: a command method called on a connected client sends its command
\* once and consumes one inbound message, also when the reply is an error,
\* which is raised with nothing sent again; when the socket fails nothing
\* is sent again either.
C29_OneRoundTripPerCall ==
    CommandCalled =>
        /\ Len(call.trace) <= 1
        /\ \A i \in 1..Len(call.trace) : call.trace[i].cmd.cmd = CommandOf(call.op)
        /\ ~TransportFailed =>
              /\ Len(call.trace) = 1
              /\ call.trace[1].reply # NoReply
              /\ Len(inbox) = Len(call.pre.inbox)
              /\ "error" \in DOMAIN call.trace[1].reply
                    => call.exc = ServerErrorExc(call.trace[1].reply.error)

C29_Witness ==
    /\ CommandCalled
    /\ call.op = "client_agents"
    /\ Len(call.trace) = 1
    /\ "error" \in DOMAIN call.trace[1].reply
    /\ call.exc = ServerErrorExc("invalid action")
    /\ call.pre.srv.agents # <<>>


----------------------------------------------------------------------------
(* C30.                                                                    *)

\* The reply last() received to its `last` command is no error reply and
\* lacks one of the fields of a result.
LastReplyMalformed ==
    /\ Called({"last"})
    /\ Len(call.trace) >= 1
    /\ call.trace[1].cmd = [cmd |-> "last"]
    /\ call.trace[1].reply # NoReply
    /\ "error" \notin DOMAIN call.trace[1].reply
    /\ ~(ResultFields \subseteq DOMAIN call.trace[1].reply)

\* C30: last() fails when the reply to `last` lacks reward, terminated,
\* truncated or info; it never returns default values in their place.
C30_MalformedLastReplyFails == LastReplyMalformed => ~Completed


----------------------------------------------------------------------------
(* C31.                                                                    *)

ResetOps == {"reset", "client_reset", "parallel_reset"}

\* C31: every reset command a reset call sends carries the seed argument in
\* its seed field when the argument is not null, seed 0 included, and has no
\* seed field when it is null; a reset that returns has sent one.
C31_SeedForwardedWhenGiven ==
    Called(ResetOps) =>
        /\ \A i \in ResetEntries : call.trace[i].cmd = ResetCommand(call.args.seed)
        /\ Completed => ResetEntries # {}

C31_Witness ==
    /\ Called({"reset"})
    /\ Completed
    /\ call.args.seed = Some(0)
    /\ \E i \in ResetEntries :
          /\ "seed" \in DOMAIN call.trace[i].cmd
          /\ call.trace[i].cmd.seed = 0


----------------------------------------------------------------------------
(* C32.                                                                    *)

\* next() resumed a generator that had not returned; iter.count is then the
\* number of agents it had yielded before.
Resumed == Called({"next"}) /\ call.pre.iter.state \in {"created", "suspended"}

\* self.agents gave the generator the empty list: the server's answer to
\* its query, or, on an adapter that is not connected, no query at all.
EmptySeen ==
    \/ ~call.pre.connected /\ call.trace = <<>>
    \/ /\ Len(call.trace) >= 1
       /\ call.trace[1].cmd = [cmd |-> "agents"]
       /\ "agents" \in DOMAIN call.trace[1].reply
       /\ call.trace[1].reply.agents = <<>>

\* C32: a generator yields only while it has yielded fewer than max_iter
\* agents, so at most max_iter and none for max_iter = 0; it ends before
\* that exactly when it finds the active set empty.
C32_YieldsAtMostMaxIter ==
    Resumed =>
        /\ Completed => (BelowMax(iter.count, iter.max_iter) /\ ~EmptySeen)
        /\ (call.exc = StopIteration /\ BelowMax(iter.count, iter.max_iter)) => EmptySeen
        /\ EmptySeen => call.exc = StopIteration

C32_Witness ==
    /\ Resumed
    /\ call.exc = StopIteration
    /\ iter.max_iter = Some(MaxIter)
    /\ iter.count = MaxIter
    /\ ~EmptySeen
    /\ srv.agents # <<>>

\* max_iter = 0: the first next() ends the generator though agents are active.
ZeroMaxIterYieldsNothing ==
    /\ Resumed
    /\ iter.max_iter = Some(0)
    /\ call.exc = StopIteration
    /\ srv.agents # <<>>


----------------------------------------------------------------------------
(* C33.                                                                    *)

\* The step commands of the call the server received while x was selected.
StepsSentFor(x) == { i \in StepEntries : call.trace[i].by = x }

\* C33: one parallel step sends at most one step command per agent, and at
\* most as many as there were active agents when it started.
C33_ParallelStepIsOneRound ==
    Called({"parallel_step"}) =>
        /\ \A x \in AllAgents : Cardinality(StepsSentFor(x)) <= 1
        /\ \A i \in StepEntries : call.trace[i].by \in ActiveAtStart
        /\ Cardinality(StepEntries) <= Cardinality(ActiveAtStart)

\* The server kept agent a selected after its step, and the call sent
\* nothing more.
C33_Witness ==
    /\ Called({"parallel_step"})
    /\ Completed
    /\ call.pre.srv.agents = <<"a", "b">>
    /\ DOMAIN call.args.actions = {"a", "b"}
    /\ \A x \in {"a", "b"} : call.args.actions[x] # None
    /\ Cardinality(StepEntries) = 1
    /\ StepsSentFor("a") # {}
    /\ srv.sel = "a"
    /\ srv.agents = <<"a", "b">>


----------------------------------------------------------------------------
(* C34.                                                                    *)

Converted == Called({"convert_space"})
HasForm(f) == f \in DOMAIN call.args.space_def

\* A descriptor of one form, or of none, is converted as its form says.
OneFormConverted ==
    Converted =>
        /\ (HasForm("n") /\ ~HasForm("shape")) =>
              /\ Completed
              /\ call.ret = [type |-> "Discrete", n |-> call.args.space_def.n]
        /\ (HasForm("shape") /\ ~HasForm("n") /\ Completed) =>
              LET d == call.args.space_def IN
              /\ call.ret.type = "Box"
              /\ call.ret.shape = d.shape
              /\ Len(call.ret.low) = Prod(d.shape)
              /\ Len(call.ret.high) = Prod(d.shape)
              /\ ~HasForm("low") => call.ret.low = Repeat(NegInf, Prod(d.shape))
              /\ ~HasForm("high") => call.ret.high = Repeat(PosInf, Prod(d.shape))
        /\ (HasForm("shape") /\ ~HasForm("n") /\ ~HasForm("low") /\ ~HasForm("high"))
              => Completed
        /\ (~HasForm("n") /\ ~HasForm("shape")) => call.exc = ValueErrorExc

\* A descriptor carrying both forms is rejected.
BothFormsRejected == (Converted /\ HasForm("n") /\ HasForm("shape")) => ~Completed

\* C34: convert_space accepts exactly the two forms: n gives a discrete
\* space, shape a bounded vector with one bound per element and infinite
\* defaults, neither is an error, and both together are not taken for one.
C34_ConvertSpaceForms == OneFormConverted /\ BothFormsRejected


----------------------------------------------------------------------------
(* C35.                                                                    *)

ConnectCalled == Called({"client_connect"})

\* C35: the client never has more than one socket open; connect on a
\* connected client closes the socket it holds before it opens the new one;
\* a connect that fails leaves the client with no socket, open or closed;
\* and a command sent by a client without a socket fails as not connected.
C35_OneLiveSocket ==
    /\ call # Idle => (call.peak <= 1 /\ call.live = IF ws # "None" THEN 1 ELSE 0)
    /\ (ConnectCalled /\ Completed) => (ws = "sock" /\ call.opened = 1 /\ inbox = <<>>)
    /\ (ConnectCalled /\ ~Completed) => (ws = "None" /\ call.opened = 0 /\ call.live = 0)
    /\ (Called(ClientCommandOps) /\ call.pre.ws = "None")
          => (call.exc = NotConnectedExc /\ call.trace = <<>>)

\* A connect on a connected client that could not open the new socket.
C35_Witness ==
    /\ ConnectCalled
    /\ call.pre.ws = "sock"
    /\ ~Completed
    /\ ws = "None"
    /\ call.live = 0
    /\ call.peak = 1


----------------------------------------------------------------------------
(* C36.                                                                    *)

\* A parallel step on a connected adapter whose map has no entry for the
\* agent the server has selected.
SelectedAgentUnsupplied ==
    /\ Called({"parallel_step"})
    /\ call.pre.connected
    /\ call.pre.srv.sel # ""
    /\ call.pre.srv.sel \notin DOMAIN call.args.actions

\* Every request of the call was answered, and by no error reply.
AllAnswered ==
    /\ ~TransportFailed
    /\ \A i \in 1..Len(call.trace) : "error" \notin DOMAIN call.trace[i].reply

FiveMaps == {"observations", "rewards", "terminations", "truncations", "infos"}

\* C36: such a call sends no step command, leaves the server's turn and
\* active set as they were, and returns the five maps unless one of its
\* queries fails.
C36_UnsuppliedTurnSendsNoStep ==
    SelectedAgentUnsupplied =>
        /\ StepEntries = {}
        /\ TurnAsBefore
        /\ AllAnswered => (Completed /\ DOMAIN call.ret = FiveMaps)

\* The action supplied for a is dropped: b is selected and has no entry.
C36_Witness ==
    /\ SelectedAgentUnsupplied
    /\ Completed
    /\ call.pre.srv.agents = <<"a", "b">>
    /\ call.pre.srv.sel = "b"
    /\ DOMAIN call.args.actions = {"a"}
    /\ call.args.actions["a"] = Some(0)
    /\ DOMAIN call.ret = FiveMaps


----------------------------------------------------------------------------
(* C37.                                                                    *)

ParallelStepDone == Called({"parallel_step"}) /\ Completed

\* The server's reply to the call's query q, which carries the map in its
\* field q.
ServerMap(q) ==
    LET i == CHOOSE j \in 1..Len(call.trace) : call.trace[j].cmd = [cmd |-> q]
    IN  call.trace[i].reply[q]

StatusQueries == {"rewards", "terminations", "truncations", "infos"}

\* C37: a parallel step returns an observation for exactly the agents active
\* at its end, each agent's own, and returns the server's reward,
\* termination, truncation and info maps as they came.
C37_ObservationsKeyedByAgentsAtEnd ==
    ParallelStepDone =>
        /\ DOMAIN call.ret.observations = ActiveNow
        /\ \A x \in ActiveNow : call.ret.observations[x] = <<x>>
        /\ \A q \in StatusQueries :
              /\ \E j \in 1..Len(call.trace) : call.trace[j].cmd = [cmd |-> q]
              /\ call.ret[q] = ServerMap(q)

\* Agent a left during the round: it has no observation, and the server's
\* reward map still has its key.
C37_Witness ==
    /\ ParallelStepDone
    /\ call.pre.srv.agents = <<"a", "b">>
    /\ srv.agents = <<"b">>
    /\ DOMAIN call.ret.observations = {"b"}
    /\ DOMAIN call.ret.rewards = {"a", "b"}


----------------------------------------------------------------------------
(* C38.                                                                    *)

\* A parallel step on a connected adapter, with active agents, one of them
\* selected, and a non-null action for each of them.
EveryActiveAgentSupplied ==
    /\ Called({"parallel_step"})
    /\ call.pre.connected
    /\ ActiveAtStart # {}
    /\ call.pre.srv.sel \in ActiveAtStart
    /\ \A x \in ActiveAtStart :
          x \in DOMAIN call.args.actions /\ call.args.actions[x] # None

\* C38: such a call sends at least one step command unless a query before
\* it fails, and when it returns the server has applied a step: every
\* iteration of the documented loop takes a turn.
C38_ParallelStepTakesATurn ==
    EveryActiveAgentSupplied =>
        /\ AllAnswered => StepEntries # {}
        /\ Completed => \E x \in ActiveAtStart : AppliedTo(x) # {}

\* b is selected and listed second: a's iteration sends nothing, b's steps.
C38_Witness ==
    /\ EveryActiveAgentSupplied
    /\ Completed
    /\ call.pre.srv.agents = <<"a", "b">>
    /\ call.pre.srv.sel = "b"
    /\ Cardinality(StepEntries) = 1
    /\ AppliedTo("b") # {}

====
